---- MODULE Spec2Model ----
(***************************************************************************)
(* electron-ipc-decorator: the channel registry (IpcHandler), the ambient  *)
(* per-call context (contextStorage / getIpcContext), the method registrar *)
(* (IpcService), and the client proxy (createIpcProxy), as a state machine.*)
(***************************************************************************)
EXTENDS Naturals, Sequences, FiniteSets, TLC

VARIABLES
    instance,            \* IpcHandler.instance: 0 = undefined, else a registry ref
    registeredChannels,  \* per registry ref: its registeredChannels Set
    ipcMainHandle,       \* ipcMain.handle calls: channel -> Seq of installed listeners
    passed,              \* history: channels ever passed to IpcHandler.registerMethod
    lastReg,             \* the last IpcHandler.registerMethod call and how it ended
    instances,           \* the IpcService instances constructed so far
    services,            \* how the last createServices call ended
    calls,               \* the inbound invocations (listener activations)
    consoleErrors,       \* the console.error calls
    outside,             \* result of the last getIpcContext() outside any handler
    sends,               \* the sendToRenderer calls and what each did
    detached,            \* asynchronous work that handlers started without awaiting it
    derived,             \* two channel derivations spelled out character by character
    proxy,               \* how the renderer's createIpcProxy call ended
    cache,               \* createIpcProxy's cache Map: group key -> sub-proxy
    reads,               \* history: the <<group key, sub-proxy ref>> of every read
    lastRead,            \* the last read of a group key on the proxy
    invokes,             \* the ipc.invoke calls made on the renderer's handle
    proxyCalls           \* the proxy.g.m(...) calls of the renderer

vars == <<instance, registeredChannels, ipcMainHandle, passed, lastReg, instances,
          services, calls, consoleErrors, outside, sends, detached, derived, proxy,
          cache, reads,
          lastRead, invokes, proxyCalls>>

registryVars == <<instance, registeredChannels, ipcMainHandle, passed, lastReg,
                  instances, services>>
dispatchVars == <<calls, consoleErrors>>
clientVars   == <<proxy, cache, reads, lastRead, invokes, proxyCalls>>

-----------------------------------------------------------------------------
(* Bounds                                                                  *)

MaxInstances == 2      \* service instances constructed
MaxCalls     == 2      \* inbound invocations
MaxAwaits    == 2      \* suspension points inside one handler body
MaxProxyCalls == 2     \* proxy.g.m(...) calls
MaxSends     == 2      \* sendToRenderer calls
MaxDetached  == 1      \* pieces of unawaited asynchronous work
MaxNameLen   == 3      \* characters in a group name or a method name

\* The JavaScript value undefined, distinct from every string of the program.
Undefined == "<undefined>"
\* The JavaScript value null.
Null      == "<null>"
NoStore   == [none |-> TRUE]

-----------------------------------------------------------------------------
(* The service classes of the application (declaration time)               *)

\* groupName: the static groupName; decorated: the @IpcMethod() applications in
\* declaration order; functions: the instance properties that are callable.
ClassDecl ==
    [ UserService   |-> [groupName |-> "user",  decorated |-> <<"get", "save">>,
                         functions |-> {"get", "save", "helper"}],
      PostService   |-> [groupName |-> "post",  decorated |-> <<"get">>,
                         functions |-> {"get", "draft"}],
      EmptyService  |-> [groupName |-> "empty", decorated |-> <<>>,
                         functions |-> {"helper"}],
      BrokenService |-> [groupName |-> "test",  decorated |-> <<"bad", "method">>,
                         functions |-> {"method"}],
      AdminService  |-> [groupName |-> "user",  decorated |-> <<"get", "ban">>,
                         functions |-> {"get", "ban"}],
      InvalidService |-> [groupName |-> Undefined, decorated |-> <<"ping">>,
                         functions |-> {"ping"}],
      BlankService  |-> [groupName |-> "",      decorated |-> <<"ping">>,
                         functions |-> {"ping"}],
      ChildService  |-> [groupName |-> "child", decorated |-> <<"extra">>,
                         functions |-> {"get", "save", "extra"}],
      HeirService   |-> [groupName |-> "heir",  decorated |-> <<>>,
                         functions |-> {"get", "save"}] ]

\* class ChildService extends UserService, class HeirService extends
\* UserService: a subclass has its parent's methods as callable properties, and
\* `decorated` lists only the names decorated in the class's own body.
Extends == [ChildService |-> "UserService", HeirService |-> "UserService"]

\* The classes that extend IpcService directly.
RootClasses == DOMAIN ClassDecl \ DOMAIN Extends

ClassNames == DOMAIN ClassDecl

\* Every decorator application of the program, in evaluation order.
RECURSIVE DecorationsOf(_, _)
DecorationsOf(cls, keys) ==
    IF keys = <<>> THEN <<>>
    ELSE <<[constructor |-> cls, propertyKey |-> Head(keys)]>>
         \o DecorationsOf(cls, Tail(keys))

RECURSIVE DecorationsAll(_)
DecorationsAll(S) ==
    IF S = {} THEN <<>>
    ELSE LET c == CHOOSE x \in S : TRUE
         IN  DecorationsOf(c, ClassDecl[c].decorated) \o DecorationsAll(S \ {c})

Decorations == DecorationsAll(ClassNames)

SeqToSet(s) == {s[i] : i \in 1..Len(s)}

\* Map.set(key, key) on an insertion-ordered Map whose values equal its keys.
MapSet(methods, key) ==
    IF key \in SeqToSet(methods) THEN methods ELSE Append(methods, key)

\* One application of the decorator returned by IpcMethod().
IpcMethod(meta, constructor, propertyKey) ==
    LET withEntry == IF constructor \in DOMAIN meta THEN meta
                     ELSE meta @@ (constructor :> <<>>)
    IN  [withEntry EXCEPT ![constructor] = MapSet(@, propertyKey)]

RECURSIVE ApplyDecorators(_, _)
ApplyDecorators(meta, decos) ==
    IF decos = <<>> THEN meta
    ELSE ApplyDecorators(
             IpcMethod(meta, Head(decos).constructor, Head(decos).propertyKey),
             Tail(decos))

\* The WeakMap after all class declarations have been evaluated.
methodMetadata == ApplyDecorators(<<>>, Decorations)

-----------------------------------------------------------------------------
(* IpcHandler                                                              *)

\* The registry state an operation works on.
RegState == [instance |-> instance, registeredChannels |-> registeredChannels,
             ipcMainHandle |-> ipcMainHandle, passed |-> passed, lastReg |-> lastReg]

\* A getInstance that builds a new registry on every call.
getInstance_fresh(s) ==
    [s EXCEPT !.registeredChannels = Append(@, {}),
              !.instance = Len(s.registeredChannels) + 1]

\* IpcHandler.getInstance(): creates the registry on first use.
getInstance(s) ==
    IF s.instance = 0
    THEN [s EXCEPT !.registeredChannels = Append(@, {}),
                   !.instance = Len(s.registeredChannels) + 1]
    ELSE s

HandleCount(s, channel) ==
    IF channel \in DOMAIN s.ipcMainHandle THEN Len(s.ipcMainHandle[channel]) ELSE 0

\* ipcMain.handle(channel, listener): the listener closes over channel and handler.
ipcMainHandleCall(h, channel, handler) ==
    IF channel \in DOMAIN h
    THEN [h EXCEPT ![channel] = Append(@, [channel |-> channel, handler |-> handler])]
    ELSE h @@ (channel :> <<[channel |-> channel, handler |-> handler]>>)

\* registerMethod without the already-registered check.
registerMethodBody_nocheck(s, self, channel, handler) ==
    [s EXCEPT !.registeredChannels[self] = @ \cup {channel},
              !.ipcMainHandle = ipcMainHandleCall(@, channel, handler)]

\* A registration that replaces the listener of an already-registered channel.
registerMethodBody_overwrite(s, self, channel, handler) ==
    [s EXCEPT !.registeredChannels[self] = @ \cup {channel},
              !.ipcMainHandle = [ch \in DOMAIN @ \cup {channel} |->
                  IF ch = channel
                  THEN <<[channel |-> channel, handler |-> handler]>>
                  ELSE @[ch]]]

\* A registration that forgets the channels registered before it.
registerMethodBody_reset(s, self, channel, handler) ==
    IF channel \in s.registeredChannels[self]
    THEN s
    ELSE [s EXCEPT !.registeredChannels[self] = {channel},
                   !.ipcMainHandle = ipcMainHandleCall(@, channel, handler)]

\* The body of IpcHandler.registerMethod(channel, handler) on registry `self`.
registerMethodBody(s, self, channel, handler) ==
    IF channel \in s.registeredChannels[self]
    THEN s
    ELSE [s EXCEPT !.registeredChannels[self] = @ \cup {channel},
                   !.ipcMainHandle = ipcMainHandleCall(@, channel, handler)]

\* The call registerMethod(channel, handler), with its bookkeeping: the channel
\* is noted as passed, and lastReg records what the call did.
registerMethod(s, self, channel, handler) ==
    LET after == registerMethodBody(s, self, channel, handler)
    IN  [after EXCEPT
            !.passed  = @ \cup {channel},
            !.lastReg = [channel   |-> channel,
                         duplicate |-> channel \in s.registeredChannels[self],
                         installed |-> HandleCount(after, channel) - HandleCount(s, channel),
                         result    |-> Undefined]]

\* The call registerMethod(channel, handler) during which ipcMain.handle
\* throws: the channel was added to the set before the call to ipcMain.handle,
\* no listener is installed, and the exception leaves registerMethod.
registerMethodThrows(s, self, channel, handler) ==
    [s EXCEPT !.registeredChannels[self] = @ \cup {channel},
              !.passed  = @ \cup {channel},
              !.lastReg = [channel   |-> channel,
                           duplicate |-> FALSE,
                           installed |-> 0,
                           result    |-> "threw"]]

SetRegStateInit(s) ==
    /\ instance = s.instance
    /\ registeredChannels = s.registeredChannels
    /\ ipcMainHandle = s.ipcMainHandle
    /\ passed = s.passed
    /\ lastReg = s.lastReg

SetRegState(s) ==
    /\ instance' = s.instance
    /\ registeredChannels' = s.registeredChannels
    /\ ipcMainHandle' = s.ipcMainHandle
    /\ passed' = s.passed
    /\ lastReg' = s.lastReg

-----------------------------------------------------------------------------
(* IpcService                                                              *)

\* `${v}` in a template literal: undefined prints as the text "undefined".
TemplateString(v) == IF v = Undefined THEN "undefined" ELSE v

\* The channel derived with its two components in the wrong order.
serviceRegisterMethod_swapped(s, inst, methodName, handler) ==
    LET groupName == ClassDecl[inst.cls].groupName
        channel   == TemplateString(methodName) \o "." \o TemplateString(groupName)
    IN  registerMethod(s, inst.handler, channel, handler)

\* The channel derived with another separator than the client's.
serviceRegisterMethod_colon(s, inst, methodName, handler) ==
    LET groupName == ClassDecl[inst.cls].groupName
        channel   == TemplateString(groupName) \o ":" \o TemplateString(methodName)
    IN  registerMethod(s, inst.handler, channel, handler)

\* IpcService.registerMethod(methodName, handler) of instance `inst`.
serviceRegisterMethod(s, inst, methodName, handler) ==
    LET groupName == ClassDecl[inst.cls].groupName
        channel   == TemplateString(groupName) \o "." \o TemplateString(methodName)
    IN  registerMethod(s, inst.handler, channel, handler)

\* A handler passed on without being bound: it runs with no instance.
Bind_unbound(propertyKey, this) == [inst |-> 0, key |-> propertyKey]

\* method.bind(this): the instance's method with `this` fixed to the instance.
Bind(propertyKey, this) == [inst |-> this, key |-> propertyKey]

\* The forEach without the typeof check: every decorated name is registered.
RECURSIVE registerEach_nofilter(_, _, _, _)
registerEach_nofilter(s, inst, ref, methods) ==
    IF methods = <<>> THEN s
    ELSE LET propertyKey == Head(methods)
             methodName  == Head(methods)
             next == serviceRegisterMethod(s, inst, methodName, Bind(propertyKey, ref))
         IN  registerEach_nofilter(next, inst, ref, Tail(methods))

\* The forEach of IpcService.registerMethods over the class's method Map.
RECURSIVE registerEach(_, _, _, _)
registerEach(s, inst, ref, methods) ==
    IF methods = <<>> THEN s
    ELSE LET propertyKey == Head(methods)
             methodName  == Head(methods)
             next == IF propertyKey \in ClassDecl[inst.cls].functions
                     THEN serviceRegisterMethod(s, inst, methodName,
                              Bind(propertyKey, ref))
                     ELSE s
         IN  registerEach(next, inst, ref, Tail(methods))

\* A lookup that also finds the names recorded under the parent class.
registerMethods_inherited(s, inst, ref) ==
    LET own  == IF inst.cls \in DOMAIN methodMetadata
                THEN methodMetadata[inst.cls] ELSE <<>>
        base == IF inst.cls \in DOMAIN Extends /\ Extends[inst.cls] \in DOMAIN methodMetadata
                THEN methodMetadata[Extends[inst.cls]] ELSE <<>>
    IN  registerEach(s, inst, ref, base \o own)

\* IpcService.registerMethods() of the instance with index `ref`.
registerMethods(s, inst, ref) ==
    IF inst.cls \in DOMAIN methodMetadata
    THEN registerEach(s, inst, ref, methodMetadata[inst.cls])
    ELSE s

\* The state a service instance keeps in a field and its methods read through
\* `this` (private value = 'instance-value').
InitialValue   == "instance-value"
InstanceValues == {InitialValue, "changed"}

\* new ServiceClass(): the field initialiser, then the constructor body.
NewService(s, cls, ref) ==
    LET s1   == getInstance(s)
        inst == [cls |-> cls, handler |-> s1.instance, value |-> InitialValue]
    IN  [state |-> registerMethods(s1, inst, ref), inst |-> inst]

\* A check for a missing value that lets the empty string through.
Falsy_missingOnly(v) == v = Undefined \/ v = Null

\* `!v`: undefined, null and the empty string are falsy.
Falsy(v) == v = Undefined \/ v = Null \/ v = ""

GroupNameError(name) ==
    "Service " \o name \o " must define a static readonly groupName property"

\* An assignment that keeps the instance already stored under the key.
SetService_keepFirst(svcs, groupName, ref) ==
    IF groupName \in DOMAIN svcs THEN svcs ELSE svcs @@ (groupName :> ref)

\* services[groupName] = instance
SetService(svcs, groupName, ref) ==
    [g \in DOMAIN svcs \cup {groupName} |-> IF g = groupName THEN ref ELSE svcs[g]]

\* The for-of loop of createServices over the remaining constructors; r holds
\* the registry state, the instances constructed and the services object.
RECURSIVE createEach(_, _)
createEach(r, ctors) ==
    IF ctors = <<>> THEN r
    ELSE LET ServiceConstructor == Head(ctors)
             ref       == Len(r.instances) + 1
             made      == NewService(r.state, ServiceConstructor, ref)
             groupName == ClassDecl[ServiceConstructor].groupName
             built     == [r EXCEPT !.state = made.state,
                                    !.instances = Append(@, made.inst)]
         IN  IF Falsy(groupName)
             THEN [built EXCEPT !.threw = TRUE,
                                !.message = GroupNameError(ServiceConstructor)]
             ELSE createEach(
                      [built EXCEPT !.services = SetService(@, groupName, ref)],
                      Tail(ctors))

\* createServices(serviceConstructors)
createServices(s, insts, serviceConstructors) ==
    createEach([state |-> s, instances |-> insts, services |-> <<>>,
                threw |-> FALSE, message |-> ""],
               serviceConstructors)

-----------------------------------------------------------------------------
(* contextStorage and the listener installed by IpcHandler.registerMethod  *)

Senders == {"w1", "w2"}
Events  == {[id |-> "e1", sender |-> "w1"], [id |-> "e2", sender |-> "w2"]}
ArgLists == {<<>>, <<"a", "b">>, <<"b", "a">>}
Values  == {"result"}
Errors  == {"Test error"}

MissingContextMessage ==
    "IPC context is not available. Make sure this is called within an IPC handler."

\* One context object built for the first invocation and reused afterwards.
NewContext_cached(ref, event) ==
    IF calls = <<>>
    THEN [ref |-> ref, sender |-> event.sender, event |-> event]
    ELSE calls[1].context

\* The context object literal of the listener; ref is the object's identity.
NewContext(ref, event) == [ref |-> ref, sender |-> event.sender, event |-> event]

\* A single shared slot instead of call-scoped storage: the latest run's store.
getStore_shared(cs, c) == cs[Len(cs)].store

\* A slot that is cleared when run() returns: nothing survives the first await.
getStore_lost(cs, c) == NoStore

\* contextStorage.getStore() in the continuation of call c: the store that
\* contextStorage.run bound for that call's asynchronous execution.
getStore(cs, c) == cs[c].store

\* contextStorage.getStore() in code that no run() encloses.
getStoreOutside(cs) == NoStore

\* getIpcContext without the check: hands out whatever getStore() returned.
getIpcContext_nothrow(store) == [threw |-> FALSE, context |-> store, message |-> ""]

\* getIpcContext() given what getStore() returned.
getIpcContext(store) ==
    IF store = NoStore
    THEN [threw |-> TRUE,  context |-> NoStore, message |-> MissingContextMessage]
    ELSE [threw |-> FALSE, context |-> store,   message |-> ""]

\* A listener that forwards its own parameter list, event included.
HandlerArgs_withEvent(event, args) == <<event.id>> \o args

\* The arguments the listener hands to the handler: handler(...args).
HandlerArgs(event, args) == args

ErrorText(channel) == "Error in IPC method " \o channel \o ":"

\* A catch block that logs and does not rethrow: the listener returns undefined.
Caught_swallow(log, channel, error) ==
    [log   |-> Append(log, [text |-> ErrorText(channel), error |-> error]),
     reply |-> [kind |-> "resolved", value |-> Undefined]]

\* The catch block of the listener: console.error, then throw error.
Caught(log, channel, error) ==
    [log   |-> Append(log, [text |-> ErrorText(channel), error |-> error]),
     reply |-> [kind |-> "rejected", value |-> error]]

Pending == [kind |-> "pending", value |-> Undefined]

\* A failure that takes every invocation still in flight down with it.
Rejected_all(cs, c, k) ==
    [d \in DOMAIN cs |->
        IF d = c THEN [cs[d] EXCEPT !.pc = "done", !.logged = @ + 1, !.reply = k.reply]
        ELSE IF cs[d].pc # "done" THEN [cs[d] EXCEPT !.pc = "done", !.reply = k.reply]
        ELSE cs[d]]

\* The catch block of listener activation c has run with outcome k: the throw
\* rejects the promise of that activation and of no other.
Rejected(cs, c, k) ==
    [cs EXCEPT ![c].pc = "done", ![c].logged = @ + 1, ![c].reply = k.reply]

\* What one synchronous segment of a handler body may end with.
SegmentEnds == {"await", "return", "reject", "throw"}

-----------------------------------------------------------------------------
(* Initial state                                                           *)

NoReg == [channel |-> "", duplicate |-> FALSE, installed |-> 0, result |-> Undefined]
NoServices == [called |-> FALSE, input |-> <<>>, base |-> 0, threw |-> FALSE,
               message |-> "", returned |-> FALSE, services |-> <<>>]

\* The record of a createServices(ctors) call that ended as r, made when `base`
\* instances existed: what it threw or returned.
ServicesResult(ctors, base, r) ==
    [called |-> TRUE, input |-> ctors, base |-> base, threw |-> r.threw,
     message |-> r.message, returned |-> ~r.threw,
     services |-> IF r.threw THEN <<>> ELSE r.services]
NoDerived == [done |-> FALSE]
NoProxy == [called |-> FALSE, arg |-> Undefined, value |-> Undefined, ipc |-> Undefined]
NoRead == [group |-> "", ref |-> 0, cached |-> FALSE]
NoAccess == [threw |-> FALSE, context |-> NoStore, message |-> "never called"]

Init ==
    /\ instance = 0
    /\ registeredChannels = <<>>
    /\ ipcMainHandle = <<>>
    /\ passed = {}
    /\ lastReg = NoReg
    /\ instances = <<>>
    /\ services = NoServices
    /\ calls = <<>>
    /\ consoleErrors = <<>>
    /\ outside = NoAccess
    /\ sends = <<>>
    /\ detached = <<>>
    /\ derived = NoDerived
    /\ proxy = NoProxy
    /\ cache = <<>>
    /\ reads = {}
    /\ lastRead = NoRead
    /\ invokes = <<>>
    /\ proxyCalls = <<>>

-----------------------------------------------------------------------------
(* Registration actions                                                    *)

DirectChannels == {"test.method", "user.get"}
DirectHandlers == {"mockHandler1", "mockHandler2"}

\* IpcHandler.getInstance().registerMethod(channel, handler) called by the
\* application with a plain function.
RegisterDirect(channel, fn) ==
    /\ LET s1 == getInstance(RegState)
       IN  SetRegState(registerMethod(s1, s1.instance, channel,
                                      [inst |-> 0, key |-> fn]))
    /\ UNCHANGED <<instances, services, dispatchVars, outside, sends, detached, derived, clientVars>>

\* A direct registration of a channel not yet registered during which the
\* transport refuses the listener (ipcMain.handle throws).
RegisterDirectThrows(channel, fn) ==
    /\ LET s1 == getInstance(RegState)
       IN  /\ channel \notin s1.registeredChannels[s1.instance]
           /\ SetRegState(registerMethodThrows(s1, s1.instance, channel,
                                               [inst |-> 0, key |-> fn]))
    /\ UNCHANGED <<instances, services, dispatchVars, outside, sends, detached,
                   derived, clientVars>>

\* new cls() for a service class.
Construct(cls) ==
    /\ Len(instances) < MaxInstances
    /\ LET r == NewService(RegState, cls, Len(instances) + 1)
       IN  /\ SetRegState(r.state)
           /\ instances' = Append(instances, r.inst)
    /\ UNCHANGED <<services, dispatchVars, outside, sends, detached, derived, clientVars>>

\* createServices(ctors) called by the application.
CreateServices(ctors) ==
    /\ Len(instances) + Len(ctors) <= MaxInstances
    /\ LET r == createServices(RegState, instances, ctors)
       IN  /\ SetRegState(r.state)
           /\ instances' = r.instances
           /\ services' = ServicesResult(ctors, Len(instances), r)
    /\ UNCHANGED <<dispatchVars, outside, sends, detached, derived, clientVars>>

-----------------------------------------------------------------------------
(* Channel names, character by character                                   *)

\* Names are sequences of characters; "." is the one that matters.
Alphabet == {"a", "."}

RECURSIVE NamesOfLen(_)
NamesOfLen(n) ==
    IF n = 0 THEN {<<>>}
    ELSE {Append(w, ch) : w \in NamesOfLen(n - 1), ch \in Alphabet}

\* The non-empty names of at most MaxNameLen characters.
Names == UNION {NamesOfLen(n) : n \in 1..MaxNameLen}

\* A derivation that joins the two components without a separator.
DeriveChannel_nosep(groupName, methodName) == groupName \o methodName

\* `${groupName}.${methodName}`: the characters of the group name, a ".", the
\* characters of the method name; nothing is escaped.
DeriveChannel(groupName, methodName) == groupName \o <<".">> \o methodName

\* Two services are constructed on a fresh registry, the first with group g1
\* and decorated method m1, the second with g2 and m2.
DeriveAndRegister(g1, m1, g2, m2) ==
    /\ LET s1 == getInstance([instance |-> 0, registeredChannels |-> <<>>,
                              ipcMainHandle |-> <<>>, passed |-> {},
                              lastReg |-> NoReg])
           c1 == DeriveChannel(g1, m1)
           c2 == DeriveChannel(g2, m2)
           a  == registerMethod(s1, s1.instance, c1, Bind(m1, 1))
           b  == registerMethod(a, a.instance, c2, Bind(m2, 2))
       IN  derived' = [done |-> TRUE, first |-> <<g1, m1>>, second |-> <<g2, m2>>,
                       channels |-> <<c1, c2>>,
                       registered |-> b.registeredChannels[b.instance],
                       listeners |-> b.ipcMainHandle,
                       firstReg |-> a.lastReg, secondReg |-> b.lastReg]
    /\ UNCHANGED <<registryVars, dispatchVars, outside, sends, detached, clientVars>>

-----------------------------------------------------------------------------
(* Dispatch actions                                                        *)

\* this.value as the handler's method body reads it when it runs: the field of
\* the receiver the handler is bound to, undefined for an unbound function.
ReadThis(insts, handler) ==
    IF handler.inst \in DOMAIN insts THEN insts[handler.inst].value ELSE Undefined

\* The application changes the state of service instance i.
SetValue(i, v) ==
    /\ instances[i].value # v
    /\ instances' = [instances EXCEPT ![i].value = v]
    /\ UNCHANGED <<instance, registeredChannels, ipcMainHandle, passed, lastReg,
                   services, dispatchVars, outside, sends, detached, derived, clientVars>>

\* The listener that serves a channel: the first one installed for it.
ListenerOf(channel) == ipcMainHandle[channel][1]

\* The listener body up to its first suspension: builds the context, runs the
\* handler's first synchronous segment inside contextStorage.run, and either
\* suspends at the await or, when the handler threw synchronously, catches.
ListenerStart(listener, event, args, end, v) ==
    LET c       == Len(calls) + 1
        context == NewContext(c, event)
        seen    == <<getIpcContext(context)>>
        base    == [channel |-> listener.channel, handler |-> listener.handler,
                    event |-> event, args |-> args, context |-> context,
                    store |-> context, recv |-> HandlerArgs(event, args),
                    receiver |-> listener.handler.inst,
                    at |-> Len(instances),
                    thisValue |-> ReadThis(instances, listener.handler),
                    seen |-> seen, awaits |-> 0,
                    hstate |-> "suspended", hvalue |-> Undefined,
                    pc |-> "await", logged |-> 0, reply |-> Pending]
    IN  CASE end = "await"  -> [call |-> [base EXCEPT !.awaits = 1], log |-> consoleErrors]
          [] end = "return" -> [call |-> [base EXCEPT !.hstate = "fulfilled", !.hvalue = v],
                                log |-> consoleErrors]
          [] end = "reject" -> [call |-> [base EXCEPT !.hstate = "rejected", !.hvalue = v],
                                log |-> consoleErrors]
          [] end = "throw"  ->
               LET k == Caught(consoleErrors, listener.channel, v)
               IN  [call |-> [base EXCEPT !.hstate = "threw", !.hvalue = v,
                                          !.pc = "done", !.logged = 1, !.reply = k.reply],
                    log |-> k.log]

EndValues(end) == IF end = "return" THEN Values
                  ELSE IF end = "await" THEN {Undefined} ELSE Errors

\* The transport invokes the listener installed for `channel`.
Invoke(channel, event, args) ==
    /\ Len(calls) < MaxCalls
    /\ channel \in DOMAIN ipcMainHandle
    /\ \E end \in SegmentEnds : \E v \in EndValues(end) :
         LET r == ListenerStart(ListenerOf(channel), event, args, end, v)
         IN  /\ calls' = Append(calls, r.call)
             /\ consoleErrors' = r.log
    /\ UNCHANGED <<registryVars, outside, sends, detached, derived, clientVars>>

\* The handler of call c resumes after an await and runs its next segment.
HandlerResume(c) ==
    /\ calls[c].hstate = "suspended"
    /\ \E end \in SegmentEnds \ {"throw"} : \E v \in EndValues(end) :
         /\ end = "await" => calls[c].awaits < MaxAwaits
         /\ LET obs == getIpcContext(getStore(calls, c))
                cur == [calls[c] EXCEPT !.seen = Append(@, obs)]
            IN  calls' = [calls EXCEPT ![c] =
                    CASE end = "await"  -> [cur EXCEPT !.awaits = @ + 1]
                      [] end = "return" -> [cur EXCEPT !.hstate = "fulfilled", !.hvalue = v]
                      [] end = "reject" -> [cur EXCEPT !.hstate = "rejected", !.hvalue = v]]
    /\ UNCHANGED <<registryVars, consoleErrors, outside, sends, detached, derived, clientVars>>

\* The listener of call c resumes from its await once the handler has settled.
ListenerResume(c) ==
    /\ calls[c].pc = "await"
    /\ calls[c].hstate \in {"fulfilled", "rejected"}
    /\ IF calls[c].hstate = "fulfilled"
       THEN /\ calls' = [calls EXCEPT ![c].pc = "done",
                                      ![c].reply = [kind |-> "resolved",
                                                    value |-> calls[c].hvalue]]
            /\ UNCHANGED consoleErrors
       ELSE LET k == Caught(consoleErrors, calls[c].channel, calls[c].hvalue)
            IN  /\ calls' = Rejected(calls, c, k)
                /\ consoleErrors' = k.log
    /\ UNCHANGED <<registryVars, outside, sends, detached, derived, clientVars>>

\* IpcHandler.getInstance() called by the application itself.
GetInstance ==
    /\ SetRegState(getInstance(RegState))
    /\ UNCHANGED <<instances, services, dispatchVars, outside, sends, detached, derived, clientVars>>

\* A sendToRenderer that sends the message twice.
sendToRenderer_twice(s, webContents, channel, data) ==
    [state  |-> s,
     did    |-> <<[on |-> webContents, channel |-> channel, data |-> data],
                  [on |-> webContents, channel |-> channel, data |-> data]>>,
     result |-> Undefined]

\* IpcHandler.sendToRenderer(webContents, channel, data): the one statement
\* webContents.send(channel, data); the method returns undefined at once.
sendToRenderer(s, webContents, channel, data) ==
    [state  |-> s,
     did    |-> <<[on |-> webContents, channel |-> channel, data |-> data]>>,
     result |-> Undefined]

SendChannels == {"user.get", "test-channel"}
Payloads     == {"payload", "other"}

\* The application calls sendToRenderer on the registry it obtained.
SendToRenderer(webContents, channel, data) ==
    /\ instance # 0
    /\ Len(sends) < MaxSends
    /\ LET r == sendToRenderer(RegState, webContents, channel, data)
       IN  /\ SetRegState(r.state)
           /\ sends' = Append(sends, [target |-> webContents, channel |-> channel,
                                      data |-> data, did |-> r.did,
                                      result |-> r.result])
    /\ UNCHANGED <<instances, services, dispatchVars, outside, detached, derived, clientVars>>

\* contextStorage.getStore() inside asynchronous work k: the store that was
\* current when the work was created, whatever has happened to its call since.
getStoreDetached(d, k) == d[k].store

\* The handler of call c, while it runs, starts asynchronous work (a timer, a
\* promise chain) and does not await it; the work inherits the current store.
Detach(c) ==
    /\ Len(detached) < MaxDetached
    /\ calls[c].hstate = "suspended"
    /\ detached' = Append(detached, [call |-> c, store |-> getStore(calls, c),
                                     ran |-> FALSE, afterSettle |-> FALSE,
                                     result |-> NoAccess])
    /\ UNCHANGED <<registryVars, dispatchVars, outside, sends, derived, clientVars>>

\* Asynchronous work k runs and calls getIpcContext().
DetachedAccess(k) ==
    /\ ~detached[k].ran
    /\ detached' = [detached EXCEPT
           ![k].ran = TRUE,
           ![k].afterSettle = calls[detached[k].call].pc = "done",
           ![k].result = getIpcContext(getStoreDetached(detached, k))]
    /\ UNCHANGED <<registryVars, dispatchVars, outside, sends, derived, clientVars>>

\* getIpcContext() called by code that runs outside every handler invocation.
OutsideAccess ==
    /\ outside' = getIpcContext(getStoreOutside(calls))
    /\ UNCHANGED <<registryVars, dispatchVars, sends, detached, derived, clientVars>>

-----------------------------------------------------------------------------
(* createIpcProxy (renderer side) and the transport between the two sides  *)

\* The transport handle of the renderer (ipcRenderer).
IpcRenderer == "ipcRenderer"

\* createIpcProxy as it was before the null check: always builds the Proxy.
createIpcProxy_nocheck(ipc) == [value |-> "Proxy", ipc |-> ipc]

\* createIpcProxy(ipc): null for a missing handle, else a Proxy closing over ipc.
createIpcProxy(ipc) ==
    IF Falsy(ipc) THEN [value |-> Null, ipc |-> ipc]
    ELSE [value |-> "Proxy", ipc |-> ipc]

\* The record of a createIpcProxy(ipc) call.
Created(ipc) ==
    LET r == createIpcProxy(ipc)
    IN  [called |-> TRUE, arg |-> ipc, value |-> r.value, ipc |-> r.ipc]

\* The outer get trap without the cache: a new sub-proxy on every read.
GroupProxy_nocache(cch, groupName, fresh) ==
    [cache |-> cch, proxy |-> [ref |-> fresh, groupName |-> groupName]]

\* The get trap of the outer Proxy: the cached sub-proxy of groupName, created
\* (with identity `fresh`, closing over groupName) and cached on the first read.
GroupProxy(cch, groupName, fresh) ==
    IF groupName \in DOMAIN cch
    THEN [cache |-> cch, proxy |-> cch[groupName]]
    ELSE LET made == [ref |-> fresh, groupName |-> groupName]
         IN  [cache |-> cch @@ (groupName :> made), proxy |-> made]

\* The identity of the next sub-proxy object to be allocated.
FreshRef == Cardinality(reads) + 1

\* The bookkeeping of a read of proxy[g] that returned sub-proxy `sub`.
NoteRead(g, sub) ==
    /\ reads' = reads \cup {<<g, sub.ref>>}
    /\ lastRead' = [group |-> g, ref |-> sub.ref, cached |-> g \in DOMAIN cache]

\* The callable forgetting to forward its arguments.
ProxyInvocations_noargs(groupName, methodName, args) ==
    LET channel == TemplateString(groupName) \o "." \o TemplateString(methodName)
    IN  <<[channel |-> channel, args |-> <<>>]>>

\* The callable of the inner Proxy's get trap, applied to args: the ipc.invoke
\* calls it makes.
ProxyInvocations(groupName, methodName, args) ==
    LET channel == TemplateString(groupName) \o "." \o TemplateString(methodName)
    IN  <<[channel |-> channel, args |-> args]>>

\* A callable that catches the failure of ipc.invoke and resolves instead.
ProxyResult_swallow(outcome) ==
    IF outcome.kind = "rejected" THEN [kind |-> "resolved", value |-> Undefined]
    ELSE outcome

\* How the promise the callable returned settles when ipc.invoke's promise
\* settles with `outcome`: the callable returns that promise itself.
ProxyResult(outcome) == outcome

NoHandler    == "No handler registered"

\* proxy.g.m(...args) in the renderer.
ProxyCall(g, m, args) ==
    /\ Len(proxyCalls) < MaxProxyCalls
    /\ proxy.value = "Proxy"
    /\ LET sub    == GroupProxy(cache, g, FreshRef)
           issued == ProxyInvocations(sub.proxy.groupName, m, args)
       IN  /\ cache' = sub.cache
           /\ NoteRead(g, sub.proxy)
           /\ invokes' = invokes \o
                  [i \in 1..Len(issued) |->
                      [channel |-> issued[i].channel, args |-> issued[i].args,
                       by |-> Len(proxyCalls) + 1, call |-> 0,  \* 0: not delivered
                       outcome |-> Pending]]
           /\ proxyCalls' = Append(proxyCalls,
                  [group |-> g, method |-> m, args |-> args, sub |-> sub.proxy.ref,
                   issued |-> Len(issued), result |-> Pending])
    /\ UNCHANGED <<registryVars, derived, dispatchVars, outside, sends, detached, proxy>>

\* createIpcProxy(ipc), called once by the renderer at load.
CreateProxy(ipc) ==
    /\ ~proxy.called
    /\ proxy' = Created(ipc)
    /\ UNCHANGED <<registryVars, derived, dispatchVars, outside, sends, detached, cache, reads, lastRead,
                   invokes, proxyCalls>>

\* A read of proxy[g] that calls nothing.
ReadGroup(g) ==
    /\ proxy.value = "Proxy"
    /\ LET sub == GroupProxy(cache, g, FreshRef)
       IN  /\ cache' = sub.cache
           /\ NoteRead(g, sub.proxy)
    /\ UNCHANGED <<registryVars, derived, dispatchVars, outside, sends, detached, proxy, invokes, proxyCalls>>

\* The invoke's promise settles; so does what the proxy call returned.
Settle(i, outcome) ==
    /\ invokes' = [invokes EXCEPT ![i].outcome = outcome]
    /\ proxyCalls' = [proxyCalls EXCEPT ![invokes[i].by].result = ProxyResult(outcome)]

RendererEvent == [id |-> "e1", sender |-> "w1"]

\* The transport carries invoke i to the main process and calls the listener
\* installed for its channel. The handlers served here settle without awaiting.
Deliver(i) ==
    /\ invokes[i].call = 0
    /\ invokes[i].outcome = Pending
    /\ invokes[i].channel \in DOMAIN ipcMainHandle
    /\ \E end \in SegmentEnds \ {"await"} : \E v \in EndValues(end) :
         LET r == ListenerStart(ListenerOf(invokes[i].channel), RendererEvent,
                                invokes[i].args, end, v)
         IN  /\ calls' = Append(calls, r.call)
             /\ consoleErrors' = r.log
    /\ invokes' = [invokes EXCEPT ![i].call = Len(calls) + 1]
    /\ UNCHANGED <<registryVars, derived, outside, sends, detached, proxy, cache, reads, lastRead, proxyCalls>>

\* The transport finds no listener for the channel of invoke i.
DeliverFails(i) ==
    /\ invokes[i].call = 0
    /\ invokes[i].outcome = Pending
    /\ invokes[i].channel \notin DOMAIN ipcMainHandle
    /\ Settle(i, [kind |-> "rejected", value |-> NoHandler])
    /\ UNCHANGED <<registryVars, derived, dispatchVars, outside, sends, detached, proxy, cache, reads, lastRead>>

\* The transport carries the listener's settled reply back to the renderer.
Reply(i) ==
    /\ invokes[i].call # 0
    /\ invokes[i].outcome = Pending
    /\ calls[invokes[i].call].pc = "done"
    /\ Settle(i, calls[invokes[i].call].reply)
    /\ UNCHANGED <<registryVars, derived, dispatchVars, outside, sends, detached, proxy, cache, reads, lastRead>>

\* Lists of constructors of length at most n.
RECURSIVE CtorLists(_)
CtorLists(n) ==
    IF n = 0 THEN {<<>>}
    ELSE LET shorter == CtorLists(n - 1)
         IN  shorter \cup {Append(l, c) : l \in shorter, c \in RootClasses}

-----------------------------------------------------------------------------
(* Specifications                                                          *)

\* Setup: registrations and service construction.
NextRegistry ==
    \/ \E ch \in DirectChannels, fn \in DirectHandlers : RegisterDirect(ch, fn)
    \/ \E cls \in RootClasses : Construct(cls)
    \/ \E ctors \in CtorLists(MaxInstances) : CreateServices(ctors)

SpecRegistry == Init /\ [][NextRegistry]_vars

\* Serving: the application has run its setup, createServices(setup), and the
\* transport now delivers invocations to the installed listeners.
Setups == {<<"UserService">>, <<"PostService", "EmptyService">>}

\* The state after createServices(setup) for one of the given setups.
Serving(setups) ==
    \E setup \in setups :
        LET r == createServices([instance |-> 0, registeredChannels |-> <<>>,
                                 ipcMainHandle |-> <<>>, passed |-> {},
                                 lastReg |-> NoReg], <<>>, setup)
        IN  /\ SetRegStateInit(r.state)
            /\ instances = r.instances
            /\ services = ServicesResult(setup, 0, r)
            /\ calls = <<>>
            /\ consoleErrors = <<>>
            /\ outside = NoAccess
            /\ sends = <<>>
            /\ detached = <<>>
            /\ derived = NoDerived
            /\ proxy = Created(IpcRenderer)
            /\ cache = <<>>
            /\ reads = {}
            /\ lastRead = NoRead
            /\ invokes = <<>>
            /\ proxyCalls = <<>>

InitServing == Serving(Setups)

DispatchArgs == {<<"a", "b">>}

NextDispatch ==
    \/ \E ch \in DOMAIN ipcMainHandle, e \in Events, a \in DispatchArgs : Invoke(ch, e, a)
    \/ \E c \in DOMAIN calls : HandlerResume(c)
    \/ \E c \in DOMAIN calls : ListenerResume(c)
    \/ OutsideAccess

Spec == InitServing /\ [][NextDispatch]_vars

\* Serving while the application changes the state of its service instances.
NextBinding ==
    \/ \E i \in DOMAIN instances, v \in InstanceValues : SetValue(i, v)
    \/ \E ch \in DOMAIN ipcMainHandle, e \in Events, a \in DispatchArgs : Invoke(ch, e, a)
    \/ \E c \in DOMAIN calls : ListenerResume(c)

SpecBinding == InitServing /\ [][NextBinding]_vars

\* The main process pushes messages to renderers while channels get registered.
NextSend ==
    \/ GetInstance
    \/ \E ch \in DirectChannels, fn \in DirectHandlers : RegisterDirect(ch, fn)
    \/ \E w \in Senders, ch \in SendChannels, d \in Payloads : SendToRenderer(w, ch, d)

SpecSend == Init /\ [][NextSend]_vars

\* The whole life of the main process: setup steps (direct registrations on a
\* channel of its own, constructions of two classes that share the group
\* "user") interleaved with dispatches on the channel both classes derive and pushes to a
\* renderer.
LifeClasses  == {"UserService", "AdminService"}
LifeChannels == {"test.method"}
LifeEvents   == {[id |-> "e1", sender |-> "w1"]}
LifeDispatch == {"user.get"}

NextLife ==
    \/ \E ch \in LifeChannels : RegisterDirect(ch, "mockHandler1")
    \/ \E cls \in LifeClasses : Construct(cls)
    \/ \E ch \in DOMAIN ipcMainHandle \cap LifeDispatch, e \in LifeEvents, a \in DispatchArgs :
          Invoke(ch, e, a)
    \/ \E c \in DOMAIN calls : ListenerResume(c)
    \/ SendToRenderer("w1", "test-channel", "payload")

SpecLife == Init /\ [][NextLife]_vars

\* Serving under the event loop's scheduling: a listener whose awaited handler
\* has settled is resumed (its continuation is a queued microtask), while a
\* handler is free never to finish.
NextFair ==
    \/ \E ch \in DOMAIN ipcMainHandle, e \in LifeEvents, a \in DispatchArgs : Invoke(ch, e, a)
    \/ \E c \in DOMAIN calls : HandlerResume(c)
    \/ \E c \in DOMAIN calls : ListenerResume(c)

SpecFair ==
    /\ InitServing
    /\ [][NextFair]_vars
    /\ \A c \in 1..MaxCalls : WF_vars(c \in DOMAIN calls /\ ListenerResume(c))

\* Serving with handlers that start asynchronous work they do not await.
DetachedDispatch == {"user.get", "post.get"}

NextDetached ==
    \/ \E ch \in DOMAIN ipcMainHandle \cap DetachedDispatch, e \in LifeEvents, a \in DispatchArgs :
          Invoke(ch, e, a)
    \/ \E c \in DOMAIN calls : HandlerResume(c)
    \/ \E c \in DOMAIN calls : ListenerResume(c)
    \/ \E c \in DOMAIN calls : Detach(c)
    \/ \E k \in DOMAIN detached : DetachedAccess(k)

SpecDetached == InitServing /\ [][NextDetached]_vars

\* Channel derivation on its own: one experiment with any two (group, method)
\* pairs per run.
NextDerive ==
    /\ ~derived.done
    /\ \E g1 \in Names, m1 \in Names, g2 \in Names, m2 \in Names :
          DeriveAndRegister(g1, m1, g2, m2)

SpecDerive == Init /\ [][NextDerive]_vars

\* Serving after a setup in which two classes may share the group "user".
SharedSetups == {<<"UserService", "AdminService">>, <<"AdminService", "UserService">>,
                 <<"UserService", "PostService">>, <<"AdminService">>}

InitShared == Serving(SharedSetups)

NextShared ==
    \/ \E ch \in DOMAIN ipcMainHandle, e \in LifeEvents, a \in DispatchArgs : Invoke(ch, e, a)
    \/ \E c \in DOMAIN calls : ListenerResume(c)

SpecShared == InitShared /\ [][NextShared]_vars

\* Registration against a transport that may refuse a listener.
InstallChannels == {"test.method", "user.get", "post.get"}

NextInstall ==
    \/ \E ch \in InstallChannels, fn \in DirectHandlers : RegisterDirect(ch, fn)
    \/ \E ch \in InstallChannels, fn \in DirectHandlers : RegisterDirectThrows(ch, fn)

SpecInstall == Init /\ [][NextInstall]_vars

\* Setup with a parent service class and two subclasses of it.
InheritClasses == {"UserService", "ChildService", "HeirService", "PostService"}

NextInherit ==
    \/ \E ch \in DirectChannels, fn \in DirectHandlers : RegisterDirect(ch, fn)
    \/ \E cls \in InheritClasses : Construct(cls)

SpecInherit == Init /\ [][NextInherit]_vars

\* End to end: the renderer calls through the proxy, the transport delivers.
GroupKeys  == {"user", "post"}
MethodKeys == {"get", "save"}

NextClient ==
    \/ \E g \in GroupKeys, m \in MethodKeys, a \in ArgLists : ProxyCall(g, m, a)
    \/ \E i \in DOMAIN invokes : Deliver(i)
    \/ \E i \in DOMAIN invokes : DeliverFails(i)
    \/ \E c \in DOMAIN calls : ListenerResume(c)
    \/ \E i \in DOMAIN invokes : Reply(i)

SpecClient == InitServing /\ [][NextClient]_vars

\* The renderer alone: it builds its proxy, reads group keys and calls methods.
Handles        == {Null, IpcRenderer}
ProxyGroupKeys == {"user", "post", "app"}
ProxyArgs      == {<<>>, <<"a", "b">>}

NextProxy ==
    \/ \E ipc \in Handles : CreateProxy(ipc)
    \/ \E g \in ProxyGroupKeys : ReadGroup(g)
    \/ \E g \in ProxyGroupKeys, m \in MethodKeys, a \in ProxyArgs : ProxyCall(g, m, a)

SpecProxy == Init /\ [][NextProxy]_vars

-----------------------------------------------------------------------------
(* Properties                                                              *)

InFlight(c) == calls[c].pc # "done"
Failed(c)   == calls[c].hstate \in {"rejected", "threw"}

\* C1: after any sequence of registerMethod calls on one registry, every
\* channel passed at least once has exactly one listener installed
\* (ipcMain.handle was called exactly once for it), and a call for an
\* already-registered channel installs nothing and returns undefined.
C1_OneListenerPerChannel ==
    /\ \A ch \in passed :
          /\ ch \in DOMAIN ipcMainHandle
          /\ Len(ipcMainHandle[ch]) = 1
          /\ ch \in registeredChannels[instance]
    /\ DOMAIN ipcMainHandle \subseteq passed
    /\ lastReg.duplicate => (lastReg.installed = 0 /\ lastReg.result = Undefined)

\* A direct registration repeated for a channel a service had registered.
C1_Witness ==
    /\ lastReg.duplicate
    /\ lastReg.channel = "user.get"
    /\ Cardinality(passed) >= 2

\* C2: with two invocations in flight at once, interleaved at their awaits,
\* every getIpcContext() made on behalf of one returns that invocation's own
\* context and never the other's.
C2_ContextIsolation ==
    \A a \in DOMAIN calls : \A i \in DOMAIN calls[a].seen :
        /\ ~calls[a].seen[i].threw
        /\ calls[a].seen[i].context = calls[a].context
        /\ \A b \in DOMAIN calls \ {a} : calls[a].seen[i].context # calls[b].context

\* Two invocations in flight, each resumed after the other had started.
C2_Witness ==
    \E a, b \in DOMAIN calls :
        /\ a < b
        /\ InFlight(a) /\ InFlight(b)
        /\ Len(calls[a].seen) >= 2 /\ Len(calls[b].seen) >= 2
        /\ calls[a].event # calls[b].event

\* C3: inside the handler of an invocation with event e, getIpcContext()
\* returns a context whose event is e and whose sender is e.sender, and each
\* invocation gets a context object of its own.
C3_ContextMatchesEvent ==
    /\ \A c \in DOMAIN calls : \A i \in DOMAIN calls[c].seen :
          /\ ~calls[c].seen[i].threw
          /\ calls[c].seen[i].context.event = calls[c].event
          /\ calls[c].seen[i].context.sender = calls[c].event.sender
    /\ \A a, b \in DOMAIN calls :
          a # b => calls[a].seen[1].context.ref # calls[b].seen[1].context.ref

\* Two invocations carrying different events, both observed.
C3_Witness ==
    \E a, b \in DOMAIN calls :
        /\ calls[a].event.sender = "w1" /\ calls[b].event.sender = "w2"
        /\ calls[a].seen[1].context.sender = "w1"
        /\ calls[b].seen[1].context.sender = "w2"

\* C4: within one invocation, getIpcContext() after any number of awaits
\* returns the same context as before the first await.
C4_ContextSurvivesAwait ==
    \A c \in DOMAIN calls : \A i \in DOMAIN calls[c].seen :
        /\ ~calls[c].seen[i].threw
        /\ calls[c].seen[i] = calls[c].seen[1]

\* An invocation that read its context before, between and after two awaits.
C4_Witness ==
    \E c \in DOMAIN calls :
        /\ calls[c].awaits >= 2
        /\ Len(calls[c].seen) >= 3
        /\ calls[c].hstate = "fulfilled"

\* C5: getIpcContext() outside every handler invocation raises the error with
\* the fixed message, and returns no context.
C5_MissingContextRaises ==
    outside # NoAccess =>
        /\ outside.threw
        /\ outside.message =
             "IPC context is not available. Make sure this is called within an IPC handler."
        /\ outside.context = NoStore

\* The accessor was called outside while an invocation was suspended.
C5_Witness ==
    /\ outside.threw
    /\ \E c \in DOMAIN calls : calls[c].hstate = "suspended"

\* C6: when the handler fails (throws synchronously or its promise rejects),
\* the listener logs once, with "Error in IPC method <channel>:" and the error,
\* and rejects with that same error; nothing is logged for other invocations.
C6_FailureLoggedAndRethrown ==
    /\ \A c \in DOMAIN calls :
          /\ (Failed(c) /\ calls[c].pc = "done") =>
                /\ calls[c].reply = [kind |-> "rejected", value |-> calls[c].hvalue]
                /\ calls[c].logged = 1
          /\ (~Failed(c) \/ calls[c].pc # "done") => calls[c].logged = 0
    /\ Len(consoleErrors) =
          Cardinality({c \in DOMAIN calls : Failed(c) /\ calls[c].pc = "done"})
    /\ \A k \in DOMAIN consoleErrors :
          \E c \in DOMAIN calls :
              /\ Failed(c) /\ calls[c].pc = "done"
              /\ consoleErrors[k].text = "Error in IPC method " \o calls[c].channel \o ":"
              /\ consoleErrors[k].error = calls[c].hvalue

\* One invocation failed by a synchronous throw, another by a rejection.
C6_Witness ==
    \E a, b \in DOMAIN calls :
        /\ calls[a].hstate = "threw" /\ calls[a].pc = "done"
        /\ calls[b].hstate = "rejected" /\ calls[b].pc = "done"
        /\ Len(consoleErrors) = 2

\* The channels a class is to register: group + "." + method (a missing group
\* name concatenates as the text "undefined") for each decorated method whose
\* instance property is callable.
ExpectedChannels(cls) ==
    {TemplateString(ClassDecl[cls].groupName) \o "." \o m :
        m \in SeqToSet(ClassDecl[cls].decorated) \cap ClassDecl[cls].functions}

DirectlyRegistered ==
    {ch \in DOMAIN ipcMainHandle : ipcMainHandle[ch][1].handler.inst = 0}

\* C7: constructing service instances registers exactly the channels
\* g + "." + m of their decorated callable methods and nothing else; on a
\* fresh registry one instance leaves exactly its class's channel set, which
\* is empty for a class without decorated methods.
C7_ConstructionRegistersExactly ==
    LET byServices == UNION {ExpectedChannels(instances[i].cls) : i \in DOMAIN instances}
    IN  /\ instances # <<>> =>
              /\ instance # 0
              /\ registeredChannels[instance] \ DirectlyRegistered \subseteq byServices
              /\ byServices \subseteq registeredChannels[instance]
        /\ (Len(instances) = 1 /\ DirectlyRegistered = {}) =>
              /\ registeredChannels[instance] = ExpectedChannels(instances[1].cls)
              /\ DOMAIN ipcMainHandle = ExpectedChannels(instances[1].cls)

\* A class with two decorated methods constructed on a fresh registry.
C7_Witness ==
    /\ Len(instances) = 1
    /\ instances[1].cls = "UserService"
    /\ registeredChannels = <<{"user.get", "user.save"}>>

\* C8: every proxy.g.m(a1..an) issues exactly one ipc.invoke, on channel
\* g + "." + m, with a1..an in order, whether or not the channel is registered.
C8_ProxyInvokesOnce ==
    /\ \A k \in DOMAIN proxyCalls :
          /\ proxyCalls[k].issued = 1
          /\ \E i \in DOMAIN invokes :
                /\ invokes[i].by = k
                /\ invokes[i].channel = proxyCalls[k].group \o "." \o proxyCalls[k].method
                /\ invokes[i].args = proxyCalls[k].args
                /\ \A j \in DOMAIN invokes : invokes[j].by = k => j = i
    /\ Len(invokes) = Len(proxyCalls)

\* A proxy call with two arguments on a channel nobody registered.
C8_Witness ==
    \E i \in DOMAIN invokes :
        /\ invokes[i].channel = "post.save"
        /\ invokes[i].channel \notin DOMAIN ipcMainHandle
        /\ invokes[i].args = <<"b", "a">>

\* C9: what proxy.g.m(...) returned settles exactly as the ipc.invoke call
\* settles: pending while it is pending, then the same value or the same error.
C9_ProxySettlesAsInvoke ==
    \A i \in DOMAIN invokes : proxyCalls[invokes[i].by].result = invokes[i].outcome

\* One proxy call rejected with the handler's error, another resolved.
C9_Witness ==
    \E j, k \in DOMAIN proxyCalls :
        /\ proxyCalls[j].result = [kind |-> "rejected", value |-> "Test error"]
        /\ proxyCalls[k].result = [kind |-> "resolved", value |-> "result"]

ServiceHas(g, m) ==
    \E r \in DOMAIN instances : g \o "." \o m \in ExpectedChannels(instances[r].cls)

\* C10: client and server derive the same channel: a proxy call g.m(args) for a
\* registered method m of the service with group g is delivered (never refused
\* for want of a listener) to the handler of m of a service whose group is g,
\* with the same arguments in the same order.
C10_ProxyReachesHandler ==
    \A i \in DOMAIN invokes :
        LET k == invokes[i].by
            c == invokes[i].call
        IN  /\ ServiceHas(proxyCalls[k].group, proxyCalls[k].method) =>
                  /\ invokes[i].channel \in DOMAIN ipcMainHandle
                  /\ invokes[i].outcome.value # NoHandler
            /\ c # 0 =>
                  /\ calls[c].handler.inst \in DOMAIN instances
                  /\ ClassDecl[instances[calls[c].handler.inst].cls].groupName
                        = proxyCalls[k].group
                  /\ calls[c].handler.key = proxyCalls[k].method
                  /\ calls[c].recv = proxyCalls[k].args

\* proxy.user.save("b", "a") ran save of the user service with ("b", "a").
C10_Witness ==
    \E c \in DOMAIN calls :
        /\ calls[c].handler.key = "save"
        /\ instances[calls[c].handler.inst].cls = "UserService"
        /\ calls[c].recv = <<"b", "a">>
        /\ calls[c].pc = "done"

\* C11: createIpcProxy(null) returns null, createIpcProxy(handle) returns a
\* proxy, and a proxy returned always has a transport handle behind it.
C11_NullHandleGivesNull ==
    proxy.called =>
        /\ proxy.arg = "<null>" => proxy.value = "<null>"
        /\ proxy.arg = "ipcRenderer" => (proxy.value = "Proxy" /\ proxy.ipc = "ipcRenderer")
        /\ proxy.value = "Proxy" => proxy.ipc = "ipcRenderer"
        /\ proxy.value # "Proxy" => (cache = <<>> /\ invokes = <<>>)

\* The renderer called createIpcProxy(null).
C11_Witness ==
    /\ proxy.called
    /\ proxy.arg = Null
    /\ proxy.value = Null

\* C12: on one proxy every read of the same group key returns the sub-object
\* created on the first read of that key, two different keys return different
\* sub-objects, and a method call made through a key's sub-object goes to that
\* key's channels.
C12_StableSubProxies ==
    /\ \A x, y \in reads : (x[1] = y[1]) <=> (x[2] = y[2])
    /\ \A g \in DOMAIN cache : cache[g].groupName = g /\ <<g, cache[g].ref>> \in reads
    /\ \A x \in reads : x[1] \in DOMAIN cache /\ cache[x[1]].ref = x[2]
    /\ lastRead # NoRead => <<lastRead.group, lastRead.ref>> \in reads
    /\ \A i \in DOMAIN invokes :
          LET k == invokes[i].by
          IN  /\ <<proxyCalls[k].group, proxyCalls[k].sub>> \in reads
              /\ invokes[i].channel = proxyCalls[k].group \o "." \o proxyCalls[k].method

\* Two group keys read, one of them again, and a call made through each.
C12_Witness ==
    /\ Cardinality(reads) = 2
    /\ lastRead.cached
    /\ \E j, k \in DOMAIN proxyCalls :
          /\ proxyCalls[j].group = "user" /\ proxyCalls[k].group = "app"
          /\ proxyCalls[j].sub # proxyCalls[k].sub

Usable(cls) == ClassDecl[cls].groupName \notin {Undefined, ""}
GroupOf(cls) == ClassDecl[cls].groupName

\* C13: for a list of classes that all have a usable groupName, createServices
\* constructs one instance per class in input order and returns the mapping
\* whose keys are exactly the group names of the list, each mapped to the
\* instance of the last class with that group name; the empty list gives the
\* empty mapping.
C13_ServicesMapping ==
    LET in == services.input
        b  == services.base
    IN  (services.called /\ \A i \in DOMAIN in : Usable(in[i])) =>
            /\ services.returned /\ ~services.threw
            /\ \A i \in DOMAIN in :
                  b + i \in DOMAIN instances /\ instances[b + i].cls = in[i]
            /\ DOMAIN services.services = {GroupOf(in[i]) : i \in DOMAIN in}
            /\ \A g \in DOMAIN services.services :
                  \E i \in DOMAIN in :
                      /\ GroupOf(in[i]) = g
                      /\ services.services[g] = b + i
                      /\ \A j \in DOMAIN in : GroupOf(in[j]) = g => j <= i
            /\ in = <<>> => services.services = <<>>

\* Two classes sharing the group name "user": the later one is in the mapping.
C13_Witness ==
    /\ services.returned
    /\ services.input = <<"UserService", "AdminService">>
    /\ DOMAIN services.services = {"user"}
    /\ instances[services.services["user"]].cls = "AdminService"

\* C14: createServices throws "Service <ClassName> must define a static
\* readonly groupName property", naming the offending class, whenever a class
\* of the input has a missing or empty groupName, and then returns no mapping.
C14_MissingGroupNameThrows ==
    LET in  == services.input
        bad == {i \in DOMAIN in : ~Usable(in[i])}
    IN  services.called =>
            /\ bad = {} => ~services.threw
            /\ bad # {} =>
                  /\ services.threw
                  /\ ~services.returned
                  /\ services.services = <<>>
                  /\ \E i \in bad :
                        /\ \A j \in bad : i <= j
                        /\ services.message = "Service " \o in[i]
                               \o " must define a static readonly groupName property"

\* A valid class followed by one whose groupName is the empty string.
C14_Witness ==
    /\ services.threw
    /\ services.input = <<"UserService", "BlankService">>
    /\ services.message =
          "Service BlankService must define a static readonly groupName property"

\* The channel a class derives for one of its method names.
ChannelOf(cls, m) == TemplateString(ClassDecl[cls].groupName) \o "." \o m

\* The channels some class or direct registration can legitimately register.
Registrable ==
    DirectChannels \cup UNION {ExpectedChannels(cls) : cls \in DOMAIN ClassDecl}

\* C15: a decorated name whose instance property is not a function is
\* skipped at construction (no listener is bound to it, its channel is never
\* passed to the registry, construction completes), while the callable
\* decorated methods of the same class are registered.
C15_NonFunctionSkipped ==
    \A i \in DOMAIN instances :
        LET cls == instances[i].cls
            d   == ClassDecl[cls]
        IN  \A k \in DOMAIN d.decorated :
                LET m  == d.decorated[k]
                    ch == ChannelOf(cls, m)
                IN  /\ m \notin d.functions =>
                          /\ \A c \in DOMAIN ipcMainHandle :
                                \A j \in DOMAIN ipcMainHandle[c] :
                                    ipcMainHandle[c][j].handler # Bind(m, i)
                          /\ ch \notin Registrable =>
                                /\ ch \notin passed
                                /\ ch \notin registeredChannels[instance]
                                /\ ch \notin DOMAIN ipcMainHandle
                    /\ m \in d.functions =>
                          /\ ch \in registeredChannels[instance]
                          /\ ch \in DOMAIN ipcMainHandle

\* A class whose first decorated name is not callable, constructed on a fresh
\* registry: only its callable method is registered.
C15_Witness ==
    /\ Len(instances) = 1
    /\ instances[1].cls = "BrokenService"
    /\ "bad" \notin ClassDecl["BrokenService"].functions
    /\ registeredChannels = <<{"test.method"}>>
    /\ DOMAIN ipcMainHandle = {"test.method"}

\* C16: getInstance always yields the one registry created by its first call,
\* so all service instances register through the same registered-channel set.
C16_SingleRegistry ==
    /\ Len(registeredChannels) <= 1
    /\ instance \in {0, 1}
    /\ instance = Len(registeredChannels)
    /\ \A i \in DOMAIN instances : instances[i].handler = instance
    /\ instance # 0 => DOMAIN ipcMainHandle \subseteq registeredChannels[instance]

\* Two service instances of different classes sharing the one registry.
C16_Witness ==
    /\ Len(instances) = 2
    /\ instances[1].cls = "UserService" /\ instances[2].cls = "PostService"
    /\ instances[1].handler = instances[2].handler
    /\ registeredChannels = <<{"user.get", "user.save", "post.get"}>>

\* C17: each inbound invocation runs the handler installed for its channel
\* once, with exactly the invocation's arguments in order (neither the event
\* nor the context is among them), and when the handler's result is a value,
\* returned at once or after suspensions, the listener resolves to that value.
C17_ArgumentsAndResultForwarded ==
    \A c \in DOMAIN calls :
        /\ calls[c].handler = ListenerOf(calls[c].channel).handler
        /\ calls[c].recv = calls[c].args
        /\ Len(calls[c].recv) = Len(calls[c].args)
        /\ (calls[c].pc = "done" /\ calls[c].hstate = "fulfilled") =>
              calls[c].reply = [kind |-> "resolved", value |-> calls[c].hvalue]
        /\ calls[c].reply.kind = "resolved" =>
              /\ calls[c].hstate = "fulfilled"
              /\ calls[c].reply.value = calls[c].hvalue
              /\ calls[c].reply.value \in Values

\* One handler that returned at once and one that returned after an await,
\* both called with two arguments and both resolved to the handler's value.
C17_Witness ==
    \E c, d \in DOMAIN calls :
        /\ calls[c].awaits = 0 /\ calls[d].awaits > 0
        /\ calls[c].recv = <<"a", "b">> /\ calls[d].recv = <<"a", "b">>
        /\ calls[c].reply = [kind |-> "resolved", value |-> "result"]
        /\ calls[d].reply = [kind |-> "resolved", value |-> "result"]

\* The instance whose construction registered channel ch: the first
\* constructed instance whose class derives ch from a decorated callable method.
Registrant(ch) ==
    CHOOSE i \in DOMAIN instances :
        /\ ch \in ExpectedChannels(instances[i].cls)
        /\ \A j \in 1..(i - 1) : ch \notin ExpectedChannels(instances[j].cls)

\* C18: every dispatch on a service's channel runs the decorated method with
\* the registering instance as receiver, and the method reads that instance's
\* state as it is when the call is made.
C18_BoundToRegisteringInstance ==
    [][\A c \in DOMAIN calls' :
          c \notin DOMAIN calls =>
              /\ calls'[c].receiver = Registrant(calls'[c].channel)
              /\ calls'[c].channel =
                     ChannelOf(instances[calls'[c].receiver].cls, calls'[c].handler.key)
              /\ calls'[c].thisValue = instances[calls'[c].receiver].value]_vars

\* A dispatch made after the instance's state was changed read the new state,
\* although the handler was bound while the state had its initial value.
C18_Witness ==
    \E c \in DOMAIN calls :
        /\ calls[c].receiver \in DOMAIN instances
        /\ calls[c].thisValue = "changed"
        /\ calls[c].thisValue # InitialValue

\* C19: each sendToRenderer(target, channel, payload) call performs exactly
\* one target.send(channel, payload) and returns undefined at once; the step
\* leaves the registered-channel set, the installed listeners, the earlier
\* sends and the invocations untouched, whether or not the channel is registered.
C19_SendToRendererOnlySends ==
    [][\A k \in DOMAIN sends' :
          k \notin DOMAIN sends =>
              /\ sends'[k].did = <<[on |-> sends'[k].target,
                                    channel |-> sends'[k].channel,
                                    data |-> sends'[k].data]>>
              /\ sends'[k].result = Undefined
              /\ Len(sends') = Len(sends) + 1
              /\ SubSeq(sends', 1, Len(sends)) = sends
              /\ instance' = instance
              /\ registeredChannels' = registeredChannels
              /\ ipcMainHandle' = ipcMainHandle
              /\ passed' = passed
              /\ calls' = calls]_vars

\* A message sent on a channel that was never registered, while another
\* channel is registered.
C19_Witness ==
    /\ instance # 0
    /\ registeredChannels[instance] = {"user.get"}
    /\ \E k \in DOMAIN sends :
          /\ sends[k].channel = "test-channel"
          /\ sends[k].channel \notin passed
          /\ Len(sends[k].did) = 1
          /\ sends[k].did[1].on = sends[k].target

\* C21: when a channel is registered more than once with different handlers
\* (two classes deriving the same channel, a second instance of a class),
\* every dispatch runs the handler of the first
\* registration, the handlers of later registrations never run, and the later
\* registration ends without an error.
C21_FirstRegistrationServes ==
    /\ \A c \in DOMAIN calls :
          LET ch == calls[c].channel
          IN  /\ ch \in UNION {ExpectedChannels(cls) : cls \in LifeClasses} =>
                    /\ calls[c].receiver = Registrant(ch)
                    /\ calls[c].receiver <= calls[c].at
                    /\ \A j \in DOMAIN instances :
                          (j # Registrant(ch)) => calls[c].handler.inst # j
    /\ \A ch \in DOMAIN ipcMainHandle : Len(ipcMainHandle[ch]) = 1
    /\ lastReg.duplicate => lastReg.result = Undefined

\* A dispatch on "user.get" made after a second class deriving "user.get" was
\* constructed: it ran on the first instance.
C21_Witness ==
    /\ Len(instances) = 2
    /\ instances[1].cls = "UserService" /\ instances[2].cls = "AdminService"
    /\ \E c \in DOMAIN calls :
          /\ calls[c].channel = "user.get"
          /\ calls[c].at = 2
          /\ calls[c].receiver = 1

\* C22: across every step (registrations, constructions, successful and
\* failing dispatches, sendToRenderer) the registry stays the same object, a
\* registered channel stays registered and its installed listener stays the same.
C22_RegisteredChannelsOnlyGrow ==
    [][/\ instance # 0 =>
             /\ instance' = instance
             /\ registeredChannels[instance] \subseteq registeredChannels'[instance]
       /\ \A ch \in DOMAIN ipcMainHandle :
             /\ ch \in DOMAIN ipcMainHandle'
             /\ ipcMainHandle'[ch][1] = ipcMainHandle[ch][1]
             /\ Len(ipcMainHandle'[ch]) >= Len(ipcMainHandle[ch])]_vars

\* Three channels registered, a failed dispatch and a push to a renderer behind.
C22_Witness ==
    /\ instance # 0
    /\ Cardinality(registeredChannels[instance]) >= 3
    /\ \E c \in DOMAIN calls : calls[c].reply.kind = "rejected"
    /\ sends # <<>>

\* The handler of call c has finished: it returned, rejected or threw.
Finished(c) == c \in DOMAIN calls /\ calls[c].hstate \in {"fulfilled", "rejected", "threw"}

ResolvedWithValue(c) ==
    /\ calls[c].reply.kind = "resolved"
    /\ calls[c].hstate = "fulfilled"
    /\ calls[c].reply.value = calls[c].hvalue

RejectedWithError(c) ==
    /\ calls[c].reply.kind = "rejected"
    /\ calls[c].hstate \in {"rejected", "threw"}
    /\ calls[c].reply.value = calls[c].hvalue

\* C23: an invocation is pending until its listener is done, and is then
\* either resolved with the handler's value or rejected with the handler's
\* error, never both and never neither; under the event loop's fairness an
\* invocation whose handler has finished eventually reaches that outcome.
C23_ExactlyOneOutcome ==
    /\ [](\A c \in DOMAIN calls :
            /\ calls[c].pc # "done" => calls[c].reply = Pending
            /\ calls[c].pc = "done" =>
                  /\ Finished(c)
                  /\ ResolvedWithValue(c) \/ RejectedWithError(c)
                  /\ ~(ResolvedWithValue(c) /\ RejectedWithError(c)))
    /\ \A c \in 1..MaxCalls :
          Finished(c) ~> (Finished(c) /\ calls[c].pc = "done"
                          /\ calls[c].reply.kind \in {"resolved", "rejected"})

\* One invocation resolved and one rejected, both after suspensions.
C23_Witness ==
    \E c, d \in DOMAIN calls :
        /\ calls[c].pc = "done" /\ calls[d].pc = "done"
        /\ calls[c].awaits > 0 /\ calls[d].awaits > 0
        /\ ResolvedWithValue(c)
        /\ RejectedWithError(d)

HasDot(name) == \E i \in DOMAIN name : name[i] = "."

\* C25: channel derivation escapes nothing: distinct (group, method) pairs
\* without "." in either component get distinct channels and both are
\* registered; distinct pairs that derive the same channel exist once a
\* component contains ".", and then the second registration installs
\* nothing, raises nothing, and the first pair's handler keeps the channel.
C25_NoEscaping ==
    derived.done =>
        LET p  == derived.first
            q  == derived.second
            c1 == derived.channels[1]
            c2 == derived.channels[2]
        IN  /\ (p # q /\ ~HasDot(p[1]) /\ ~HasDot(p[2]) /\ ~HasDot(q[1]) /\ ~HasDot(q[2]))
                  => c1 # c2
            /\ c1 # c2 =>
                  /\ derived.registered = {c1, c2}
                  /\ derived.secondReg.installed = 1
                  /\ derived.listeners[c2][1].handler = [inst |-> 2, key |-> q[2]]
            /\ (p # q /\ c1 = c2) =>
                  /\ HasDot(p[1]) \/ HasDot(p[2]) \/ HasDot(q[1]) \/ HasDot(q[2])
                  /\ derived.secondReg.duplicate
                  /\ derived.secondReg.installed = 0
                  /\ derived.secondReg.result = Undefined
                  /\ derived.registered = {c1}
                  /\ Len(derived.listeners[c1]) = 1
                  /\ derived.listeners[c1][1].handler = [inst |-> 1, key |-> p[2]]
            /\ derived.listeners[c1][1].handler = [inst |-> 1, key |-> p[2]]

\* ("a.a", "a") registered first and ("a", "a.a") second: one channel "a.a.a".
C25_Witness ==
    /\ derived.done
    /\ derived.first  = << <<"a", ".", "a">>, <<"a">> >>
    /\ derived.second = << <<"a">>, <<"a", ".", "a">> >>
    /\ derived.channels[1] = derived.channels[2]
    /\ derived.channels[1] = <<"a", ".", "a", ".", "a">>
    /\ derived.secondReg.duplicate
    /\ derived.registered = {derived.channels[1]}

\* C26 as stated: every dispatch on a channel g.m of a decorated method m of
\* services[g] runs on the instance services[g], also when two classes of the
\* input share the group name g.
C26_ReturnedInstanceServes ==
    \A c \in DOMAIN calls :
        \A g \in DOMAIN services.services :
            LET i == services.services[g]
            IN  calls[c].channel \in ExpectedChannels(instances[i].cls) =>
                    calls[c].receiver = i

\* C26 (amended): a dispatch on a channel runs on the first constructed
\* instance whose class derives that channel, while services[g] is the
\* instance of the last class with group g; so a dispatch on a channel of
\* services[g] runs on services[g] exactly when no earlier class of the input
\* derives the same channel.
C26_FirstRegistrantServes ==
    /\ \A g \in DOMAIN services.services :
          \A j \in DOMAIN instances :
              GroupOf(instances[j].cls) = g => j <= services.services[g]
    /\ \A c \in DOMAIN calls :
          /\ calls[c].receiver = Registrant(calls[c].channel)
          /\ \A g \in DOMAIN services.services :
                LET i == services.services[g]
                IN  calls[c].channel \in ExpectedChannels(instances[i].cls) =>
                        (calls[c].receiver = i <=>
                            \A j \in 1..(i - 1) :
                                calls[c].channel \notin ExpectedChannels(instances[j].cls))

\* createServices([UserService, AdminService]): "user" maps to the AdminService
\* instance; user.get was served by the UserService instance and user.ban by
\* the AdminService instance.
C26_Witness ==
    /\ services.input = <<"UserService", "AdminService">>
    /\ services.services["user"] = 2
    /\ \E c, d \in DOMAIN calls :
          /\ calls[c].channel = "user.get" /\ calls[c].receiver = 1
          /\ calls[d].channel = "user.ban" /\ calls[d].receiver = 2

\* The registered-channel set of the registry in a registry state, empty
\* while no registry exists.
ChannelsOf(inst, chans) == IF inst = 0 THEN {} ELSE chans[inst]

\* C27: a createServices call that raises for a class without a usable
\* groupName registers no channel derived from that class (none whose group
\* component is the text "undefined" or the empty string).
C27_FailedCreateRegistersNothing ==
    [][(services' # services /\ services'.threw) =>
          LET in  == services'.input
              bad == CHOOSE i \in DOMAIN in :
                        /\ ~Usable(in[i])
                        /\ \A j \in 1..(i - 1) : Usable(in[j])
              new == ChannelsOf(instance', registeredChannels')
                        \ ChannelsOf(instance, registeredChannels)
          IN  \A m \in SeqToSet(ClassDecl[in[bad]].decorated) :
                  ChannelOf(in[bad], m) \notin new]_vars

\* C28: in every reachable state the registered-channel set is exactly the
\* set of channels with an installed listener, also after ipcMain.handle
\* failed for a channel: that channel is not left marked as registered.
C28_RegisteredIffInstalled ==
    instance # 0 =>
        /\ registeredChannels[instance] = DOMAIN ipcMainHandle
        /\ \A ch \in registeredChannels[instance] : Len(ipcMainHandle[ch]) = 1

\* C29: a step in which an invocation fails changes nothing but that
\* invocation: the registry, the channel's listener and every other
\* invocation, in flight or done, stay as they were; and every new invocation
\* is dispatched to the channel's handler whatever failed on it before.
C29_FailureIsLocal ==
    [][\A c \in DOMAIN calls' :
          /\ (calls'[c].reply.kind = "rejected"
                /\ (c \notin DOMAIN calls \/ calls[c].reply.kind # "rejected")) =>
                /\ instance' = instance
                /\ registeredChannels' = registeredChannels
                /\ ipcMainHandle' = ipcMainHandle
                /\ calls'[c].channel \in registeredChannels'[instance']
                /\ Len(ipcMainHandle'[calls'[c].channel]) = 1
                /\ \A d \in DOMAIN calls \ {c} : calls'[d] = calls[d]
          /\ c \notin DOMAIN calls =>
                /\ calls'[c].handler = ipcMainHandle[calls'[c].channel][1].handler
                /\ calls'[c].recv = calls'[c].args]_vars

\* Two invocations on the same channel, both suspended at some point: one
\* ended rejected, the other resolved by the same handler.
C29_Witness ==
    \E c, d \in DOMAIN calls :
        /\ c # d
        /\ calls[c].channel = calls[d].channel
        /\ calls[c].reply.kind = "rejected" /\ calls[c].awaits > 0
        /\ calls[d].reply.kind = "resolved" /\ calls[d].awaits > 0
        /\ calls[d].handler = calls[c].handler

\* The names decorated in the body of some class other than cls.
DecoratedElsewhere(cls) ==
    UNION {SeqToSet(ClassDecl[other].decorated) : other \in DOMAIN ClassDecl \ {cls}}
        \ SeqToSet(ClassDecl[cls].decorated)

\* C30: constructing an instance registers only names decorated in the body
\* of the instance's own class: no listener is bound to the instance for a
\* name decorated only on another class, be it unrelated or the parent class,
\* and the instance's group gets no channel for such a name.
C30_OwnClassNamesOnly ==
    \A i \in DOMAIN instances :
        LET cls == instances[i].cls
        IN  /\ \A ch \in DOMAIN ipcMainHandle :
                  \A j \in DOMAIN ipcMainHandle[ch] :
                      ipcMainHandle[ch][j].handler.inst = i =>
                          ipcMainHandle[ch][j].handler.key
                              \in SeqToSet(ClassDecl[cls].decorated)
            /\ \A m \in DecoratedElsewhere(cls) :
                  ChannelOf(cls, m) \notin DirectChannels =>
                      \/ ChannelOf(cls, m) \notin registeredChannels[instance]
                      \/ \E k \in DOMAIN instances :
                            /\ GroupOf(instances[k].cls) = GroupOf(cls)
                            /\ m \in SeqToSet(ClassDecl[instances[k].cls].decorated)

\* A subclass that decorates one method of its own and a subclass that
\* decorates none, both constructed: the parent's decorated names "get" and
\* "save", callable on both instances, were not registered for either.
C30_Witness ==
    /\ Len(instances) = 2
    /\ instances[1].cls = "ChildService" /\ instances[2].cls = "HeirService"
    /\ {"get", "save"} \subseteq ClassDecl["ChildService"].functions
    /\ registeredChannels = <<{"child.extra"}>>
    /\ DOMAIN ipcMainHandle = {"child.extra"}

====
